---- MODULE Spec2Model ----
(***************************************************************************)
(* Model of the multi-layer cache manager                                  *)
(* (src/src/backend/caching/advanced_cache_manager.py).                    *)
(*                                                                         *)
(* Python values are records [t, v]; byte strings produced by pickle and   *)
(* zlib are records that wrap what they encode; a cache key (the sha256    *)
(* hex digest) is the one-token string <<digest input>>, the hash being    *)
(* modelled as injective.  Every handler is one atomic action.             *)
(***************************************************************************)
EXTENDS Integers, Sequences, FiniteSets, TLC

\* ---------------------------------------------------------------- bounds
MaxTime == 2

\* ------------------------------------------------------- python values
PyNone == [t |-> "NoneType", v |-> 0]
PyInt(n) == [t |-> "int", v |-> n]
PyGenerator == [t |-> "generator", v |-> 0]
\* an object that pickles, and whose pickle raises when it is loaded
\* (its __reduce__ names a call that fails)
PyUnloadable == [t |-> "unloadable", v |-> 0]

Picklable(x) == x.t # "generator"

\* exception names; NoError stands for a normal return
NoError == "no error"

\* ------------------------------------------------------ key derivation
\* kwargs is the dict in insertion order: a sequence of [name, value]
KwNames(kwargs) == {kwargs[i].name : i \in 1..Len(kwargs)}
KwValue(kwargs, n) == (CHOOSE i \in 1..Len(kwargs) : kwargs[i].name = n)
SameKwargs(kw1, kw2) ==
    /\ KwNames(kw1) = KwNames(kw2)
    /\ \A n \in KwNames(kw1) : kw1[KwValue(kw1, n)].value = kw2[KwValue(kw2, n)].value

\* pickle.dumps((args, kwargs)): the tuple in order, the dict in insertion order
PickleArgs(args, kwargs) == [pickle |-> [args |-> args, kwargs |-> kwargs]]

ArgsPicklable(args, kwargs) ==
    /\ \A i \in 1..Len(args) : Picklable(args[i])
    /\ \A i \in 1..Len(kwargs) : Picklable(kwargs[i].value)

\* sha256(f"{func_name}:{serialized_args}").hexdigest()
Sha256Hex(text) == <<[sha256 |-> text]>>

_generate_cache_key(func_name, args, kwargs) ==
    Sha256Hex([name |-> func_name, data |-> PickleArgs(args, kwargs)])

\* --------------------------------------------------------------- codec
PickleDumps(value) == [fmt |-> "pickle", body |-> value]
ZlibCompress(bytes) == [fmt |-> "zlib", body |-> bytes]

_compress_data(data) == ZlibCompress(PickleDumps(data))

\* pickle.loads(zlib.decompress(b)): [ok, value]; ok = FALSE stands for the
\* zlib.error / UnpicklingError raised on bytes that are not such a stream
_decompress_data(compressed) ==
    IF /\ compressed.fmt = "zlib"
       /\ compressed.body.fmt = "pickle"
       /\ compressed.body.body.t # "unloadable"
    THEN [ok |-> TRUE, value |-> compressed.body.body]
    ELSE [ok |-> FALSE, value |-> PyNone]

\* bytes.decode('latin-1') and str.encode('latin-1')
DecodeLatin1(bytes) == [latin1 |-> bytes]
EncodeLatin1(str) == str.latin1

\* --------------------------------------------------------- tier policy
Layers == {"memory", "redis", "disk", "multi"}
InLayerExact(layer, tier) == layer = tier
InLayer(layer, tier) == layer \in {tier, "multi"}

\* self.redis_client is either a client object or None
NoClient == "None"
Client == "redis.Redis"

\* ------------------------------------------------------------ __init__
\* ping raises redis.ConnectionError when the host is unreachable
ConstructKeepClient(pingOk) ==
    [redis_client |-> Client, memory_cache |-> <<>>, raised |-> NoError]
Construct(pingOk) ==
    [redis_client |-> IF pingOk THEN Client ELSE NoClient,
     memory_cache |-> <<>>,
     raised |-> NoError]

\* ------------------------------------------------------ function tools
Has(f, k) == k \in DOMAIN f
Put(f, k, e) == [x \in DOMAIN f \cup {k} |-> IF x = k THEN e ELSE f[x]]
Drop(f, k) == [x \in DOMAIN f \ {k} |-> f[x]]
Empty == <<>>

\* ---------------------------------------------------------- memory tier
\* get_from_memory_cache: [mem, result, raised]
GetFromMemoryKeepExpired(mem, key, now) ==
    IF Has(mem, key) /\ now < mem[key].expiry
    THEN LET d == _decompress_data(mem[key].value)
         IN [mem |-> mem,
             result |-> d.value,
             raised |-> IF d.ok THEN NoError ELSE "zlib.error"]
    ELSE [mem |-> mem, result |-> PyNone, raised |-> NoError]
GetFromMemoryPopOnRead(mem, key, now) ==
    IF Has(mem, key)
    THEN IF now < mem[key].expiry
         THEN LET d == _decompress_data(mem[key].value)
              IN [mem |-> Drop(mem, key),
                  result |-> d.value,
                  raised |-> IF d.ok THEN NoError ELSE "zlib.error"]
         ELSE [mem |-> Drop(mem, key), result |-> PyNone, raised |-> NoError]
    ELSE [mem |-> mem, result |-> PyNone, raised |-> NoError]
get_from_memory_cache(mem, key, now) ==
    IF Has(mem, key)
    THEN IF now < mem[key].expiry
         THEN LET d == _decompress_data(mem[key].value)
              IN [mem |-> mem,
                  result |-> d.value,
                  raised |-> IF d.ok THEN NoError ELSE "zlib.error"]
         ELSE [mem |-> Drop(mem, key), result |-> PyNone, raised |-> NoError]
    ELSE [mem |-> mem, result |-> PyNone, raised |-> NoError]

\* ---------------------------------------------------------- remote tier
\* the server answers GET with nil for a key that is absent or whose
\* SETEX lifetime has run out
RedisServerGet(redis, key, now) ==
    IF Has(redis, key) /\ now < redis[key].expiry
    THEN [nil |-> FALSE, value |-> redis[key].value]
    ELSE [nil |-> TRUE, value |-> _compress_data(PyNone)]

\* get_from_redis_cache: [result, calls, failed, raised]; fail = the client call
\* raises, failed names the remote operation that raised, calls counts the
\* operations sent to the server
GetFromRedisRaising(client, redis, key, now, fail) ==
    IF client = NoClient
    THEN [result |-> PyNone, calls |-> 0, failed |-> "none", raised |-> NoError]
    ELSE IF fail
         THEN [result |-> PyNone, calls |-> 1, failed |-> "get", raised |-> "redis.RedisError"]
         ELSE LET got == RedisServerGet(redis, key, now)
                  d == _decompress_data(got.value)
              IN [result |-> IF ~got.nil /\ d.ok THEN d.value ELSE PyNone,
                  calls |-> 1, failed |-> "none", raised |-> NoError]
get_from_redis_cache(client, redis, key, now, fail) ==
    IF client = NoClient
    THEN [result |-> PyNone, calls |-> 0, failed |-> "none", raised |-> NoError]
    ELSE IF fail
         THEN [result |-> PyNone, calls |-> 1, failed |-> "get", raised |-> NoError]
         ELSE LET got == RedisServerGet(redis, key, now)
                  d == _decompress_data(got.value)
              IN [result |-> IF ~got.nil /\ d.ok THEN d.value ELSE PyNone,
                  calls |-> 1, failed |-> "none", raised |-> NoError]

\* ------------------------------------------------------------ disk tier
\* a file is the sequence of JSON documents written to it: <<>> is the
\* zero-length file, <<doc>> a file holding one {value, expiry} object
EmptyFile == <<>>
JsonFile(compressed, expiry) ==
    <<[value |-> DecodeLatin1(compressed), expiry |-> expiry]>>

\* get_from_disk_cache: [disk, result]; json.load of a zero-length file
\* raises JSONDecodeError, which the handler logs and swallows
get_from_disk_cache(disk, key, now) ==
    IF Has(disk, key)
    THEN IF disk[key] = EmptyFile
         THEN [disk |-> disk, result |-> PyNone]
         ELSE LET cache_entry == disk[key][1]
                  d == _decompress_data(EncodeLatin1(cache_entry.value))
              IN IF now < cache_entry.expiry
                 THEN [disk |-> disk, result |-> IF d.ok THEN d.value ELSE PyNone]
                 ELSE [disk |-> Drop(disk, key), result |-> PyNone]
    ELSE [disk |-> disk, result |-> PyNone]

\* get_from_disk_cache with the file-system faults its handler swallows:
\* unreadable = open() raises, removeFail = os.remove of the expired file
\* raises; both are logged and the lookup returns None
GetFromDiskKeepExpiredFile(disk, key, now, unreadable, removeFail) ==
    [disk |-> disk,
     result |-> IF Has(disk, key) /\ ~unreadable
                THEN get_from_disk_cache(disk, key, now).result
                ELSE PyNone,
     raised |-> NoError]
get_from_disk_cache_io(disk, key, now, unreadable, removeFail) ==
    IF Has(disk, key) /\ (unreadable \/ removeFail)
    THEN [disk |-> disk,
          result |-> IF unreadable THEN PyNone
                     ELSE get_from_disk_cache(disk, key, now).result,
          raised |-> NoError]
    ELSE [disk |-> get_from_disk_cache(disk, key, now).disk,
          result |-> get_from_disk_cache(disk, key, now).result,
          raised |-> NoError]

\* open(disk_path, 'wb'): the file is created, or truncated to zero length
OpenWb(disk, key) == Put(disk, key, EmptyFile)

\* json.dump(doc, f) on a file opened in binary mode: the first f.write(str)
\* raises TypeError, nothing has been written
JsonDumpBinary(file, doc) == [file |-> file, raised |-> "TypeError"]

\* ------------------------------------------------------------ set_cache
\* the memory entry: {'value': compressed_value, 'expiry': time.time() + ttl}
MemoryEntryNoClock(compressed_value, now, ttl) ==
    [value |-> compressed_value, expiry |-> ttl]
MemoryEntry(compressed_value, now, ttl) ==
    [value |-> compressed_value, expiry |-> now + ttl]

\* setex(key, ttl, value): the server keeps the value for ttl seconds
RedisSetex(redis, key, ttl, value, now) ==
    Put(redis, key, [value |-> value, expiry |-> now + ttl])

\* [mem, redis, disk, raised, calls, failed]
set_cache(client, mem, redis, disk, key, value, ttl, layer, now, redisFail) ==
    LET compressed_value == _compress_data(value)
        mem1 == IF InLayer(layer, "memory")
                THEN Put(mem, key, MemoryEntry(compressed_value, now, ttl))
                ELSE mem
        useRedis == InLayer(layer, "redis") /\ client # NoClient
        redis1 == IF useRedis /\ ~redisFail
                  THEN RedisSetex(redis, key, ttl, compressed_value, now)
                  ELSE redis
        opened == OpenWb(disk, key)
        dumped == JsonDumpBinary(opened[key],
                                 JsonFile(compressed_value, now + ttl))
    IN [mem |-> mem1,
        redis |-> redis1,
        disk |-> IF InLayer(layer, "disk") THEN Put(opened, key, dumped.file) ELSE disk,
        raised |-> IF InLayer(layer, "disk") THEN dumped.raised ELSE NoError,
        calls |-> IF useRedis THEN 1 ELSE 0,
        failed |-> IF useRedis /\ redisFail THEN "setex" ELSE "none"]

\* ----------------------------------------------------- invalidate_cache
\* key is [none, str]; `if key:` is false for None and for the empty string
KeyNone == [none |-> TRUE, str |-> <<>>]
KeyOf(str) == [none |-> FALSE, str |-> str]
Truthy(key) == ~key.none /\ key.str # <<>>

\* memory_cache.pop(key, None) or memory_cache.clear()
InvalidateMemoryPopOnly(mem, key) ==
    IF Truthy(key) /\ Has(mem, key.str) THEN Drop(mem, key.str) ELSE mem
InvalidateMemory(mem, key) ==
    IF Truthy(key)
    THEN IF Has(mem, key.str) THEN Drop(mem, key.str) ELSE mem
    ELSE Empty

\* redis_client.delete(key) or redis_client.flushdb()
InvalidateRedis(redis, key) ==
    IF Truthy(key)
    THEN IF Has(redis, key.str) THEN Drop(redis, key.str) ELSE redis
    ELSE Empty

\* os.remove(disk_path) if it exists, or os.unlink of every file listed;
\* unlinkFail: the files whose os.unlink raises (logged, skipped)
InvalidateDisk(disk, key, unlinkFail) ==
    IF Truthy(key)
    THEN IF Has(disk, key.str) THEN Drop(disk, key.str) ELSE disk
    ELSE [x \in DOMAIN disk \cap unlinkFail |-> disk[x]]

\* [mem, redis, disk, raised, calls, failed]
invalidate_cache(client, mem, redis, disk, key, layer, redisFail, unlinkFail) ==
    LET useRedis == InLayer(layer, "redis") /\ client # NoClient
    IN [mem |-> IF InLayer(layer, "memory") THEN InvalidateMemory(mem, key) ELSE mem,
        redis |-> IF useRedis /\ ~redisFail THEN InvalidateRedis(redis, key) ELSE redis,
        disk |-> IF InLayer(layer, "disk") THEN InvalidateDisk(disk, key, unlinkFail)
                 ELSE disk,
        raised |-> NoError,
        calls |-> IF useRedis THEN 1 ELSE 0,
        failed |-> IF useRedis /\ redisFail
                   THEN (IF Truthy(key) THEN "delete" ELSE "flushdb")
                   ELSE "none"]

\* ------------------------------------------------ the wrapped functions
FuncNames == {"square", "find"}
\* square(x) = x*x; find(2) returns None, find(3) raises KeyError;
\* pricing.square is another function, of another module, that is also
\* named square: pricing.square(x) = x + 1
\* func.__name__
FuncName(func) == IF func = "pricing.square" THEN "square" ELSE func
Func(name, args) ==
    IF name = "square"
    THEN [value |-> PyInt(args[1].v * args[1].v), raised |-> NoError]
    ELSE IF name = "pricing.square"
    THEN [value |-> PyInt(args[1].v + 1), raised |-> NoError]
    ELSE IF args[1].v = 2
         THEN [value |-> PyNone, raised |-> NoError]
         ELSE [value |-> PyNone, raised |-> "KeyError"]

\* -------------------------------------------------------- cache.wrapper
\* faults: [get, set] = the remote get / setex of this call raises
Outcome(mem, redis, disk, key, result, raised, invoked, hit, probed, calls, failed, wrote) ==
    [mem |-> mem, redis |-> redis, disk |-> disk, key |-> key,
     result |-> result, raised |-> raised, invoked |-> invoked, hit |-> hit,
     probed |-> probed, calls |-> calls, failed |-> failed, wrote |-> wrote]

WrapperBackfill(client, mem, redis, disk, func, args, kwargs, ttl, cache_none, layer, now, faults) ==
    IF ~ArgsPicklable(args, kwargs)
    THEN Outcome(mem, redis, disk, <<>>, PyNone, "PicklingError", 0, "none", <<>>, 0, "none", FALSE)
    ELSE
    LET cache_key == _generate_cache_key(FuncName(func), args, kwargs)
        useMem == InLayer(layer, "memory")
        m == IF useMem THEN get_from_memory_cache(mem, cache_key, now)
             ELSE [mem |-> mem, result |-> PyNone, raised |-> NoError]
        useRedis == InLayer(layer, "redis") /\ client # NoClient
        r == IF useRedis THEN get_from_redis_cache(client, redis, cache_key, now, faults.get)
             ELSE [result |-> PyNone, calls |-> 0, failed |-> "none", raised |-> NoError]
        useDisk == InLayer(layer, "disk")
        d == IF useDisk THEN get_from_disk_cache(disk, cache_key, now)
             ELSE [disk |-> disk, result |-> PyNone]
        pm == IF useMem THEN <<"memory">> ELSE <<>>
        pr == IF useRedis THEN <<"redis">> ELSE <<>>
        pd == IF useDisk THEN <<"disk">> ELSE <<>>
        f == Func(func, args)
        store == f.value # PyNone \/ cache_none
        w == IF store
             THEN set_cache(client, m.mem, redis, d.disk, cache_key, f.value, ttl, layer, now, faults.set)
             ELSE [mem |-> m.mem, redis |-> redis, disk |-> d.disk,
                   raised |-> NoError, calls |-> 0, failed |-> "none"]
    IN IF m.raised # NoError
       THEN Outcome(m.mem, redis, disk, cache_key, PyNone, m.raised, 0, "none", pm, 0, "none", FALSE)
       ELSE IF m.result # PyNone
       THEN Outcome(m.mem, redis, disk, cache_key, m.result, NoError, 0, "memory", pm, 0, "none", FALSE)
       ELSE IF r.raised # NoError
       THEN Outcome(m.mem, redis, disk, cache_key, PyNone, r.raised, 0, "none", pm \o pr, r.calls, r.failed, FALSE)
       ELSE IF r.result # PyNone
       THEN Outcome(Put(m.mem, cache_key, MemoryEntry(_compress_data(r.result), now, ttl)),
                    redis, disk, cache_key, r.result, NoError, 0, "redis", pm \o pr, r.calls, r.failed, FALSE)
       ELSE IF d.result # PyNone
       THEN Outcome(Put(m.mem, cache_key, MemoryEntry(_compress_data(d.result), now, ttl)),
                    redis, d.disk, cache_key, d.result, NoError, 0, "disk", pm \o pr \o pd, r.calls, r.failed, FALSE)
       ELSE IF f.raised # NoError
       THEN Outcome(m.mem, redis, d.disk, cache_key, PyNone, f.raised, 1, "none", pm \o pr \o pd, r.calls, r.failed, FALSE)
       ELSE Outcome(w.mem, w.redis, w.disk, cache_key,
                    IF w.raised = NoError THEN f.value ELSE PyNone,
                    w.raised, 1, "none", pm \o pr \o pd,
                    r.calls + w.calls,
                    IF r.failed # "none" THEN r.failed ELSE w.failed, store)

WrapperAlwaysStore(client, mem, redis, disk, func, args, kwargs, ttl, cache_none, layer, now, faults) ==
    IF ~ArgsPicklable(args, kwargs)
    THEN Outcome(mem, redis, disk, <<>>, PyNone, "PicklingError", 0, "none", <<>>, 0, "none", FALSE)
    ELSE
    LET cache_key == _generate_cache_key(FuncName(func), args, kwargs)
        useMem == InLayer(layer, "memory")
        m == IF useMem THEN get_from_memory_cache(mem, cache_key, now)
             ELSE [mem |-> mem, result |-> PyNone, raised |-> NoError]
        useRedis == InLayer(layer, "redis") /\ client # NoClient
        r == IF useRedis THEN get_from_redis_cache(client, redis, cache_key, now, faults.get)
             ELSE [result |-> PyNone, calls |-> 0, failed |-> "none", raised |-> NoError]
        useDisk == InLayer(layer, "disk")
        d == IF useDisk THEN get_from_disk_cache(disk, cache_key, now)
             ELSE [disk |-> disk, result |-> PyNone]
        pm == IF useMem THEN <<"memory">> ELSE <<>>
        pr == IF useRedis THEN <<"redis">> ELSE <<>>
        pd == IF useDisk THEN <<"disk">> ELSE <<>>
        f == Func(func, args)
        store == TRUE
        w == IF store
             THEN set_cache(client, m.mem, redis, d.disk, cache_key, f.value, ttl, layer, now, faults.set)
             ELSE [mem |-> m.mem, redis |-> redis, disk |-> d.disk,
                   raised |-> NoError, calls |-> 0, failed |-> "none"]
    IN IF m.raised # NoError
       THEN Outcome(m.mem, redis, disk, cache_key, PyNone, m.raised, 0, "none", pm, 0, "none", FALSE)
       ELSE IF m.result # PyNone
       THEN Outcome(m.mem, redis, disk, cache_key, m.result, NoError, 0, "memory", pm, 0, "none", FALSE)
       ELSE IF r.raised # NoError
       THEN Outcome(m.mem, redis, disk, cache_key, PyNone, r.raised, 0, "none", pm \o pr, r.calls, r.failed, FALSE)
       ELSE IF r.result # PyNone
       THEN Outcome(m.mem, redis, disk, cache_key, r.result, NoError, 0, "redis", pm \o pr, r.calls, r.failed, FALSE)
       ELSE IF d.result # PyNone
       THEN Outcome(m.mem, redis, d.disk, cache_key, d.result, NoError, 0, "disk", pm \o pr \o pd, r.calls, r.failed, FALSE)
       ELSE IF f.raised # NoError
       THEN Outcome(m.mem, redis, d.disk, cache_key, PyNone, f.raised, 1, "none", pm \o pr \o pd, r.calls, r.failed, FALSE)
       ELSE Outcome(w.mem, w.redis, w.disk, cache_key,
                    IF w.raised = NoError THEN f.value ELSE PyNone,
                    w.raised, 1, "none", pm \o pr \o pd,
                    r.calls + w.calls,
                    IF r.failed # "none" THEN r.failed ELSE w.failed, store)

wrapper(client, mem, redis, disk, func, args, kwargs, ttl, cache_none, layer, now, faults) ==
    IF ~ArgsPicklable(args, kwargs)
    THEN Outcome(mem, redis, disk, <<>>, PyNone, "PicklingError", 0, "none", <<>>, 0, "none", FALSE)
    ELSE
    LET cache_key == _generate_cache_key(FuncName(func), args, kwargs)
        useMem == InLayer(layer, "memory")
        m == IF useMem THEN get_from_memory_cache(mem, cache_key, now)
             ELSE [mem |-> mem, result |-> PyNone, raised |-> NoError]
        useRedis == InLayer(layer, "redis") /\ client # NoClient
        r == IF useRedis THEN get_from_redis_cache(client, redis, cache_key, now, faults.get)
             ELSE [result |-> PyNone, calls |-> 0, failed |-> "none", raised |-> NoError]
        useDisk == InLayer(layer, "disk")
        d == IF useDisk THEN get_from_disk_cache(disk, cache_key, now)
             ELSE [disk |-> disk, result |-> PyNone]
        pm == IF useMem THEN <<"memory">> ELSE <<>>
        pr == IF useRedis THEN <<"redis">> ELSE <<>>
        pd == IF useDisk THEN <<"disk">> ELSE <<>>
        f == Func(func, args)
        store == f.value # PyNone \/ cache_none
        w == IF store
             THEN set_cache(client, m.mem, redis, d.disk, cache_key, f.value, ttl, layer, now, faults.set)
             ELSE [mem |-> m.mem, redis |-> redis, disk |-> d.disk,
                   raised |-> NoError, calls |-> 0, failed |-> "none"]
    IN IF m.raised # NoError
       THEN Outcome(m.mem, redis, disk, cache_key, PyNone, m.raised, 0, "none", pm, 0, "none", FALSE)
       ELSE IF m.result # PyNone
       THEN Outcome(m.mem, redis, disk, cache_key, m.result, NoError, 0, "memory", pm, 0, "none", FALSE)
       ELSE IF r.raised # NoError
       THEN Outcome(m.mem, redis, disk, cache_key, PyNone, r.raised, 0, "none", pm \o pr, r.calls, r.failed, FALSE)
       ELSE IF r.result # PyNone
       THEN Outcome(m.mem, redis, disk, cache_key, r.result, NoError, 0, "redis", pm \o pr, r.calls, r.failed, FALSE)
       ELSE IF d.result # PyNone
       THEN Outcome(m.mem, redis, d.disk, cache_key, d.result, NoError, 0, "disk", pm \o pr \o pd, r.calls, r.failed, FALSE)
       ELSE IF f.raised # NoError
       THEN Outcome(m.mem, redis, d.disk, cache_key, PyNone, f.raised, 1, "none", pm \o pr \o pd, r.calls, r.failed, FALSE)
       ELSE Outcome(w.mem, w.redis, w.disk, cache_key,
                    IF w.raised = NoError THEN f.value ELSE PyNone,
                    w.raised, 1, "none", pm \o pr \o pd,
                    r.calls + w.calls,
                    IF r.failed # "none" THEN r.failed ELSE w.failed, store)

\* --------------------------------------------------------------- inputs
\* the decorated functions: @cache(ttl=2) square, @cache(ttl=1, cache_none=True)
\* find, and find again under @cache(ttl=1, layer='memory')
Decorated == {[func |-> "square", ttl |-> 2, cache_none |-> FALSE, layer |-> "multi"],
              [func |-> "find", ttl |-> 1, cache_none |-> TRUE, layer |-> "multi"],
              [func |-> "find", ttl |-> 1, cache_none |-> FALSE, layer |-> "memory"]}
\* the calls made: square(2), square(<generator>), find(2), find(3)
CallArgs(func) == IF func = "square" THEN {PyInt(2), PyGenerator} ELSE {PyInt(2), PyInt(3)}
TTLs == {1, 2}
\* the keys and values of direct set_cache / get / invalidate_cache calls
SquareKey == _generate_cache_key("square", <<PyInt(2)>>, <<>>)
FindKey == _generate_cache_key("find", <<PyInt(2)>>, <<>>)
DirectKeys == {SquareKey, FindKey}
SetKeys == {SquareKey}
DirectValues == {PyInt(7)}
\* which remote call of a cached call raises
Faults == {[get |-> FALSE, set |-> FALSE], [get |-> TRUE, set |-> FALSE],
           [get |-> FALSE, set |-> TRUE]}

\* the cache directory outlives the process (os.makedirs(..., exist_ok=True)):
\* it is empty, or already holds one well-formed entry file (value 7, expiry 2)
PreDisk == {Empty, Put(Empty, FindKey, JsonFile(_compress_data(PyInt(7)), 2))}

\* key-derivation inputs of the second specification
KwargsSet == { <<>>,
               <<[name |-> "a", value |-> PyInt(2)]>>,
               <<[name |-> "a", value |-> PyInt(2)], [name |-> "b", value |-> PyInt(3)]>>,
               <<[name |-> "b", value |-> PyInt(3)], [name |-> "a", value |-> PyInt(2)]>> }
Signatures == [func : FuncNames, args : {<<PyInt(2)>>, <<PyInt(3)>>}, kwargs : KwargsSet]
NoSig == [func |-> "square", args |-> <<PyInt(2)>>, kwargs |-> <<>>]

\* ---------------------------------------------------------------- state
VARIABLES now, reachable, redis_client, memory_cache, redis, disk,
          last, sigs, keys, threads, count, written, limiter, security, database

vars == <<now, reachable, redis_client, memory_cache, redis, disk, last, sigs, keys,
          threads, count, written, limiter, security, database>>
cacheVars == <<now, reachable, redis_client, memory_cache, redis, disk, last>>
keyVars == <<sigs, keys, threads, count, written, limiter, security, database>>
threadVars == <<threads, count, written>>

\* the callers' threads; each runs at most one operation, statement by statement
Threads == {1, 2}
NoEntry == [value |-> _compress_data(PyNone), expiry |-> 0]
IdleThread ==
    [op |-> "idle", pc |-> "idle", layer |-> "none", some |-> FALSE, entry |-> NoEntry,
     result |-> PyNone, raised |-> NoError, missed |-> FALSE, invoked |-> FALSE,
     wrote |-> FALSE, removedLive |-> FALSE]
IdleThreads == [t \in Threads |-> IdleThread]
\* who stored last in the memory and in the remote tier (0: nobody)
NoWrites == [memory |-> 0, redis |-> 0]

\* --------------------------------------------- AdvancedRateLimiter
\* the limits of the exploration: the clock stops at MaxClock, and a client
\* sends at most MaxBurst requests within one second
MaxClock == 2
MaxBurst == 2
RateKeys == {"a", "b"}

\* timestamps newer than current_time - window
Recent(timestamps, window, current_time) ==
    SelectSeq(timestamps, LAMBDA ts : ts > current_time - window)

\* _memory_rate_limit: [memory_limits, allowed]
MemoryRateLimitKeepBoundary(memory_limits, key, limit, window, current_time) ==
    LET m0 == IF Has(memory_limits, key) THEN memory_limits
              ELSE Put(memory_limits, key, [timestamps |-> <<>>, last_cleanup |-> current_time])
        kept == SelectSeq(Append(m0[key].timestamps, current_time),
                          LAMBDA ts : ts >= current_time - window)
    IN [memory_limits |-> Put(m0, key, [timestamps |-> kept,
                                        last_cleanup |-> m0[key].last_cleanup]),
        allowed |-> Len(kept) <= limit]
_memory_rate_limit(memory_limits, key, limit, window, current_time) ==
    LET m0 == IF Has(memory_limits, key) THEN memory_limits
              ELSE Put(memory_limits, key, [timestamps |-> <<>>, last_cleanup |-> current_time])
        entry == m0[key]
        cleaned == IF current_time - entry.last_cleanup > window
                   THEN [timestamps |-> Recent(entry.timestamps, window, current_time),
                         last_cleanup |-> current_time]
                   ELSE entry
        kept == Recent(Append(cleaned.timestamps, current_time), window, current_time)
    IN [memory_limits |-> Put(m0, key, [timestamps |-> kept,
                                        last_cleanup |-> cleaned.last_cleanup]),
        allowed |-> Len(kept) <= limit]

\* a sorted set is the set of its members; the member str(current_time) has
\* the score current_time, so a member is its score
\* zremrangebyscore(key, 0, max)
ZRemRangeByScore(members, max) == {m \in members : ~(0 <= m /\ m <= max)}
\* zadd(key, {str(current_time): current_time}); expire(key, window)
ZAdd(members, current_time) == members \cup {current_time}

\* _redis_rate_limit: [zsets, allowed]; fail = the pipeline raises
_redis_rate_limit(zsets, key, limit, window, current_time, fail) ==
    IF fail THEN [zsets |-> zsets, allowed |-> TRUE]
    ELSE LET old == IF Has(zsets, key) THEN zsets[key].members ELSE {}
             members == ZAdd(ZRemRangeByScore(old, current_time - window), current_time)
         IN [zsets |-> Put(zsets, key, [members |-> members,
                                        expiry |-> current_time + window]),
             allowed |-> Cardinality(members) <= limit]

\* _check_rate_limit: the remote limiter when there is a client
_check_rate_limit(lim, key, current_time, fail) ==
    IF lim.redis_client # NoClient
    THEN LET r == _redis_rate_limit(lim.zsets, key, lim.limit, lim.window, current_time, fail)
         IN [lim EXCEPT !.zsets = r.zsets, !.allowed = r.allowed]
    ELSE LET r == _memory_rate_limit(lim.memory_limits, key, lim.limit, lim.window,
                                     current_time)
         IN [lim EXCEPT !.memory_limits = r.memory_limits, !.allowed = r.allowed]

\* the limiter, the decorator's limit and window, and the record of what it
\* was asked and what it granted: granted[key] lists the times of the allowed
\* requests, burst the requests of the current second, asked the time of the
\* latest request (-1: none), errors whether a pipeline has raised
NoLimiter ==
    [redis_client |-> NoClient, limit |-> 0, window |-> 0,
     memory_limits |-> Empty, zsets |-> Empty,
     granted |-> [k \in RateKeys |-> <<>>], burst |-> [k \in RateKeys |-> 0],
     asked |-> [k \in RateKeys |-> -1], quiet |-> FALSE, allowed |-> FALSE,
     errors |-> FALSE]

\* ------------------------------------------ AdvancedSecurityManager
\* the clock of the login tracker counts quarters of an hour: attempts are
\* reset after more than ResetAfter quarters (15 minutes), a block lasts
\* BlockFor quarters (one hour), and more than MaxFailed attempts block
ResetAfter == 1
BlockFor == 4
MaxFailed == 5
\* the exploration stops at MaxQuarter and after MaxAttempts attempts of a user
MaxQuarter == 4
MaxAttempts == 7
Users == {"ann"}
\* a public address, a private one and a string that is no address
Ips == {"8.8.8.8", "10.0.0.5", "unknown"}
IpClass(ip) ==
    IF ip = "8.8.8.8" THEN "public" ELSE IF ip = "10.0.0.5" THEN "private" ELSE "invalid"

\* track_login_attempts: [login_attempts, blocked_ips, result]
TrackLoginAttemptsFromFifth(login_attempts, blocked_ips, username, ip, current_time) ==
    LET l0 == IF Has(login_attempts, username) THEN login_attempts
              ELSE Put(login_attempts, username,
                       [attempts |-> 0, last_attempt |-> current_time])
        before == IF current_time - l0[username].last_attempt > ResetAfter
                  THEN 0 ELSE l0[username].attempts
        attempts == before + 1
        l1 == Put(l0, username, [attempts |-> attempts, last_attempt |-> current_time])
    IN IF attempts >= MaxFailed
       THEN [login_attempts |-> l1, blocked_ips |-> Put(blocked_ips, ip, current_time),
             result |-> FALSE]
       ELSE [login_attempts |-> l1, blocked_ips |-> blocked_ips, result |-> TRUE]
track_login_attempts(login_attempts, blocked_ips, username, ip, current_time) ==
    LET l0 == IF Has(login_attempts, username) THEN login_attempts
              ELSE Put(login_attempts, username,
                       [attempts |-> 0, last_attempt |-> current_time])
        before == IF current_time - l0[username].last_attempt > ResetAfter
                  THEN 0 ELSE l0[username].attempts
        attempts == before + 1
        l1 == Put(l0, username, [attempts |-> attempts, last_attempt |-> current_time])
    IN IF attempts > MaxFailed
       THEN [login_attempts |-> l1, blocked_ips |-> Put(blocked_ips, ip, current_time),
             result |-> FALSE]
       ELSE [login_attempts |-> l1, blocked_ips |-> blocked_ips, result |-> TRUE]

\* check_ip_reputation: [blocked_ips, result]; ipaddress.ip_address raises
\* ValueError for a string that is no address, which is logged
check_ip_reputation(blocked_ips, ip, current_time) ==
    IF IpClass(ip) = "invalid" THEN [blocked_ips |-> blocked_ips, result |-> FALSE]
    ELSE IF IpClass(ip) = "private" THEN [blocked_ips |-> blocked_ips, result |-> FALSE]
    ELSE IF Has(blocked_ips, ip)
         THEN IF current_time - blocked_ips[ip] < BlockFor
              THEN [blocked_ips |-> blocked_ips, result |-> FALSE]
              ELSE [blocked_ips |-> Drop(blocked_ips, ip), result |-> TRUE]
         ELSE [blocked_ips |-> blocked_ips, result |-> TRUE]

\* the manager's two tables, the times of every user's attempts so far, and
\* the call that has just returned
NoSecurity ==
    [login_attempts |-> Empty, blocked_ips |-> Empty,
     history |-> [u \in Users |-> <<>>],
     op |-> "none", username |-> "", ip |-> "", result |-> TRUE, wasBlocked |-> FALSE]

\* ---------------------------------------- CommunityEventController
\* the sessions that call register_for_event, each at most MaxCalls times
Sessions == {1, 2}
MaxCalls == 2
\* the uuids a caller passes: two users and one uuid of no user
Participants == {"p1", "p2", "nobody"}
Registered == {"p1", "p2"}
IdleSession ==
    [pc |-> "idle", participant |-> "", current_participants |-> 0,
     raised |-> NoError, calls |-> 0, added |-> FALSE]
\* the committed EventParticipation rows of the one event (the participant
\* of each row, in the order of the commits), the event's max_participants,
\* and the sessions
NoDatabase ==
    [rows |-> <<>>, max_participants |-> 0,
     sessions |-> [x \in Sessions |-> IdleSession]]
\* session.query(func.count(EventParticipation.id)).filter_by(event_id).scalar()
CountRows(rows) == Len(rows)
\* session.query(EventParticipation).filter_by(event_id, participant_id).first()
ExistingRegistration(rows, participant) ==
    \E i \in 1..Len(rows) : rows[i] = participant

\* the record of the operation that has just returned (none once time has passed)
Last(op, key, layer, out) ==
    [op |-> op, key |-> key, layer |-> layer,
     ttl |-> 0, value |-> PyNone, found |-> "absent",
     func |-> "", arg |-> PyNone, cache_none |-> FALSE, unlinkFailed |-> FALSE,
     populated |-> FALSE, unreadable |-> FALSE,
     result |-> out.result, raised |-> out.raised,
     invoked |-> out.invoked, hit |-> out.hit, probed |-> out.probed,
     calls |-> out.calls, failed |-> out.failed]
NoOut == [result |-> PyNone, raised |-> NoError, invoked |-> 0, hit |-> "none",
          probed |-> <<>>, calls |-> 0, failed |-> "none"]
Out(result, raised, calls, failed) ==
    [result |-> result, raised |-> raised, invoked |-> 0, hit |-> "none",
     probed |-> <<>>, calls |-> calls, failed |-> failed]

\* what a lookup finds under a key: nothing, a live entry or an expired one
Found(tier, key) ==
    IF ~Has(tier, key) THEN "absent"
    ELSE IF now < tier[key].expiry THEN "live" ELSE "expired"

Init ==
    /\ now = 0
    /\ reachable \in BOOLEAN
    /\ redis_client = Construct(reachable).redis_client
    /\ memory_cache = Construct(reachable).memory_cache
    /\ redis = Empty
    /\ disk \in PreDisk
    /\ last = [Last("__init__", KeyNone, "none", NoOut)
                 EXCEPT !.raised = Construct(reachable).raised]
    /\ sigs = <<NoSig, NoSig>>
    /\ keys = <<>>
    /\ threads = IdleThreads
    /\ count = 0
    /\ written = NoWrites
    /\ security = NoSecurity
    /\ database = NoDatabase
    /\ limiter = NoLimiter

\* time passes; the server drops the keys whose SETEX lifetime has run out
Tick ==
    /\ now < MaxTime
    /\ now' = now + 1
    /\ redis' = [k \in {x \in DOMAIN redis : now + 1 < redis[x].expiry} |-> redis[k]]
    /\ last' = Last("tick", KeyNone, "none", NoOut)
    /\ UNCHANGED <<reachable, redis_client, memory_cache, disk, keyVars>>

\* a call of a function decorated with cache(ttl, cache_none, layer)
Call ==
    \E dec \in Decorated, faults \in Faults : \E a \in CallArgs(dec.func) :
       LET func == dec.func
           ttl == dec.ttl
           cache_none == dec.cache_none
           layer == dec.layer
           o == wrapper(redis_client, memory_cache, redis, disk, func, <<a>>, <<>>,
                        ttl, cache_none, layer, now, faults)
       IN /\ (faults.get \/ faults.set) =>
                (InLayer(layer, "redis") /\ redis_client # NoClient /\ o.calls > 0)
          /\ memory_cache' = o.mem
          /\ redis' = o.redis
          /\ disk' = o.disk
          /\ last' = [Last("call", KeyOf(o.key), layer, o)
                        EXCEPT !.func = func, !.arg = a, !.cache_none = cache_none,
                               !.ttl = ttl]
          /\ UNCHANGED <<now, reachable, redis_client, keyVars>>

\* a direct set_cache(key, value, ttl, layer)
SetCache ==
    \E key \in SetKeys, value \in DirectValues, ttl \in TTLs, layer \in Layers,
       redisFail \in BOOLEAN :
       LET o == set_cache(redis_client, memory_cache, redis, disk, key, value,
                          ttl, layer, now, redisFail)
       IN /\ redisFail => (InLayer(layer, "redis") /\ redis_client # NoClient)
          /\ memory_cache' = o.mem
          /\ redis' = o.redis
          /\ disk' = o.disk
          /\ last' = [Last("set_cache", KeyOf(key), layer,
                           Out(PyNone, o.raised, o.calls, o.failed))
                        EXCEPT !.ttl = ttl, !.value = value]
          /\ UNCHANGED <<now, reachable, redis_client, keyVars>>

GetFromMemoryCache ==
    \E key \in DirectKeys :
       LET o == get_from_memory_cache(memory_cache, key, now)
       IN /\ memory_cache' = o.mem
          /\ last' = [Last("get_from_memory_cache", KeyOf(key), "memory",
                           Out(o.result, o.raised, 0, "none"))
                        EXCEPT !.found = Found(memory_cache, key)]
          /\ UNCHANGED <<now, reachable, redis_client, redis, disk, keyVars>>

GetFromRedisCache ==
    \E key \in DirectKeys, fail \in BOOLEAN :
       LET o == get_from_redis_cache(redis_client, redis, key, now, fail)
       IN /\ fail => redis_client # NoClient
          /\ last' = Last("get_from_redis_cache", KeyOf(key), "redis",
                          Out(o.result, o.raised, o.calls, o.failed))
          /\ UNCHANGED <<now, reachable, redis_client, memory_cache, redis, disk, keyVars>>

GetFromDiskCache ==
    \E key \in DirectKeys :
       LET o == get_from_disk_cache(disk, key, now)
       IN /\ disk' = o.disk
          /\ last' = Last("get_from_disk_cache", KeyOf(key), "disk",
                          Out(o.result, NoError, 0, "none"))
          /\ UNCHANGED <<now, reachable, redis_client, memory_cache, redis, keyVars>>

\* invalidate_cache(key, layer); key = None clears the enabled tiers
UnlinkFailures == {{}} \cup {{k} : k \in DirectKeys}
InvalidateKeys == {KeyNone} \cup {KeyOf(k) : k \in DirectKeys}
InvalidateCache ==
    \E key \in InvalidateKeys, layer \in Layers,
       redisFail \in BOOLEAN, unlinkFail \in UnlinkFailures :
       LET o == invalidate_cache(redis_client, memory_cache, redis, disk, key,
                                 layer, redisFail, unlinkFail)
       IN /\ redisFail => (InLayer(layer, "redis") /\ redis_client # NoClient)
          /\ unlinkFail # {} =>
                (InLayer(layer, "disk") /\ ~Truthy(key) /\ unlinkFail \subseteq DOMAIN disk)
          /\ memory_cache' = o.mem
          /\ redis' = o.redis
          /\ disk' = o.disk
          /\ last' = [Last("invalidate_cache", key, layer,
                           Out(PyNone, o.raised, o.calls, o.failed))
                        EXCEPT !.unlinkFailed = unlinkFail # {},
                               !.populated = \A k \in DirectKeys :
                                   /\ Found(memory_cache, k) = "live"
                                   /\ Found(redis, k) = "live"
                                   /\ Has(disk, k)]
          /\ UNCHANGED <<now, reachable, redis_client, keyVars>>

Next ==
    \/ Tick
    \/ Call
    \/ SetCache
    \/ GetFromMemoryCache
    \/ GetFromRedisCache
    \/ GetFromDiskCache
    \/ InvalidateCache

Spec == Init /\ [][Next]_vars

\* ------------------------------- second specification: key derivation
InitKey ==
    /\ now = 0
    /\ reachable = TRUE
    /\ redis_client = Construct(TRUE).redis_client
    /\ memory_cache = Empty
    /\ redis = Empty
    /\ disk = Empty
    /\ last = Last("__init__", KeyNone, "none", NoOut)
    /\ sigs \in Signatures \X Signatures
    /\ keys = <<>>
    /\ threads = IdleThreads
    /\ count = 0
    /\ written = NoWrites
    /\ security = NoSecurity
    /\ database = NoDatabase
    /\ limiter = NoLimiter

\* two calls are made; each derives its key
DeriveKeys ==
    /\ keys = <<>>
    /\ keys' = <<_generate_cache_key(sigs[1].func, sigs[1].args, sigs[1].kwargs),
                 _generate_cache_key(sigs[2].func, sigs[2].args, sigs[2].kwargs)>>
    /\ UNCHANGED <<cacheVars, sigs, threadVars, limiter, security, database>>

NextKey == DeriveKeys

SpecKey == InitKey /\ [][NextKey]_vars

\* ---------------- third specification: malformed inputs and stored bytes
\* the empty string is a key like any other for the three tiers
EmptyKey == <<>>
EdgeKeys == {EmptyKey, SquareKey}
\* bytes that are not a zlib stream
GarbageBytes == [fmt |-> "garbage", body |-> PickleDumps(PyNone)]
\* a layer argument outside the four policies
EdgeLayers == {"memory", "redis", "multi", "bogus"}
\* the direct writes: a value whose pickle cannot be loaded, the empty key,
\* and an unknown layer
EdgeSets ==
    {[key |-> SquareKey, value |-> PyUnloadable, layer |-> "memory"],
     [key |-> EmptyKey, value |-> PyInt(7), layer |-> "memory"],
     [key |-> SquareKey, value |-> PyInt(7), layer |-> "bogus"]}
\* the files and the remote keys found at start-up: none, or a valid entry
\* next to a file (a remote value) that is truncated or is not an entry
EdgeDisk ==
    {Empty} \cup
    {Put(Put(Empty, FindKey, JsonFile(_compress_data(PyInt(7)), 1)), SquareKey, f) :
        f \in {EmptyFile, JsonFile(GarbageBytes, 2)}}
EdgeRedis == {Empty, Put(Empty, SquareKey, [value |-> GarbageBytes, expiry |-> 2])}

\* what is stored under a key: nothing, an expired entry, a live entry that
\* decodes, or a live entry whose payload is not the encoding of any value
Decodable(payload) == \E v \in {PyNone, PyInt(4), PyInt(7)} : payload = _compress_data(v)
PayloadState(payload, expiry) ==
    IF now >= expiry THEN "expired"
    ELSE IF Decodable(payload) THEN "live" ELSE "corrupt"
Stored(tier, key) ==
    IF ~Has(tier, key) THEN "absent"
    ELSE PayloadState(tier[key].value, tier[key].expiry)
StoredFile(key) ==
    IF ~Has(disk, key) THEN "absent"
    ELSE IF disk[key] = EmptyFile THEN "corrupt"
    ELSE PayloadState(EncodeLatin1(disk[key][1].value), disk[key][1].expiry)
StoredIn(tier, key) ==
    IF tier = "memory" THEN Stored(memory_cache, key)
    ELSE IF tier = "redis" THEN Stored(redis, key) ELSE StoredFile(key)

InitEdge ==
    /\ now = 0
    /\ reachable = TRUE
    /\ redis_client = Construct(TRUE).redis_client
    /\ memory_cache = Construct(TRUE).memory_cache
    /\ redis \in EdgeRedis
    /\ disk \in EdgeDisk
    /\ last = Last("__init__", KeyNone, "none", NoOut)
    /\ sigs = <<NoSig, NoSig>>
    /\ keys = <<>>
    /\ threads = IdleThreads
    /\ count = 0
    /\ written = NoWrites
    /\ security = NoSecurity
    /\ database = NoDatabase
    /\ limiter = NoLimiter

\* set_cache(key, value, 1, layer)
EdgeSetCache ==
    \E set \in EdgeSets :
       LET key == set.key
           value == set.value
           layer == set.layer
           o == set_cache(redis_client, memory_cache, redis, disk, key, value,
                          1, layer, now, FALSE)
       IN /\ memory_cache' = o.mem
          /\ redis' = o.redis
          /\ disk' = o.disk
          /\ last' = [Last("set_cache", KeyOf(key), layer,
                           Out(PyNone, o.raised, o.calls, o.failed))
                        EXCEPT !.ttl = 1, !.value = value]
          /\ UNCHANGED <<now, reachable, redis_client, keyVars>>

\* square(2) or pricing.square(2) under cache(ttl=1, layer=layer)
EdgeCalls ==
    {[func |-> "square", layer |-> l] : l \in EdgeLayers \ {"redis"}}
       \cup {[func |-> "pricing.square", layer |-> "memory"]}
EdgeCall ==
    \E call \in EdgeCalls :
       LET layer == call.layer
           o == wrapper(redis_client, memory_cache, redis, disk, call.func, <<PyInt(2)>>,
                        <<>>, 1, FALSE, layer, now, [get |-> FALSE, set |-> FALSE])
       IN /\ memory_cache' = o.mem
          /\ redis' = o.redis
          /\ disk' = o.disk
          /\ last' = [Last("call", KeyOf(o.key), layer, o)
                        EXCEPT !.func = call.func, !.arg = PyInt(2), !.ttl = 1,
                               !.found = IF \E i \in 1..Len(o.probed) :
                                               StoredIn(o.probed[i], o.key) = "corrupt"
                                         THEN "corrupt" ELSE "absent"]
          /\ UNCHANGED <<now, reachable, redis_client, keyVars>>

EdgeGetFromMemoryCache ==
    \E key \in EdgeKeys :
       LET o == get_from_memory_cache(memory_cache, key, now)
       IN /\ memory_cache' = o.mem
          /\ last' = [Last("get_from_memory_cache", KeyOf(key), "memory",
                           Out(o.result, o.raised, 0, "none"))
                        EXCEPT !.found = Stored(memory_cache, key)]
          /\ UNCHANGED <<now, reachable, redis_client, redis, disk, keyVars>>

EdgeGetFromRedisCache ==
    \E key \in EdgeKeys :
       LET o == get_from_redis_cache(redis_client, redis, key, now, FALSE)
       IN /\ last' = [Last("get_from_redis_cache", KeyOf(key), "redis",
                           Out(o.result, o.raised, o.calls, o.failed))
                        EXCEPT !.found = Stored(redis, key)]
          /\ UNCHANGED <<now, reachable, redis_client, memory_cache, redis, disk, keyVars>>

EdgeGetFromDiskCache ==
    \E key \in DirectKeys, unreadable \in BOOLEAN, removeFail \in BOOLEAN :
       LET o == get_from_disk_cache_io(disk, key, now, unreadable, removeFail)
       IN /\ (unreadable \/ removeFail) => Has(disk, key)
          /\ removeFail => (~unreadable /\ StoredFile(key) = "expired")
          /\ disk' = o.disk
          /\ last' = [Last("get_from_disk_cache", KeyOf(key), "disk",
                           Out(o.result, o.raised, 0, "none"))
                        EXCEPT !.found = StoredFile(key),
                               !.unreadable = unreadable,
                               !.unlinkFailed = removeFail]
          /\ UNCHANGED <<now, reachable, redis_client, memory_cache, redis, keyVars>>

\* invalidate_cache(key, layer) with a key given
EdgeInvalidateCache ==
    \E key \in EdgeKeys, layer \in EdgeLayers :
       LET o == invalidate_cache(redis_client, memory_cache, redis, disk, KeyOf(key),
                                 layer, FALSE, {})
       IN /\ memory_cache' = o.mem
          /\ redis' = o.redis
          /\ disk' = o.disk
          /\ last' = Last("invalidate_cache", KeyOf(key), layer,
                          Out(PyNone, o.raised, o.calls, o.failed))
          /\ UNCHANGED <<now, reachable, redis_client, keyVars>>

NextEdge ==
    \/ Tick
    \/ EdgeSetCache
    \/ EdgeCall
    \/ EdgeGetFromMemoryCache
    \/ EdgeGetFromRedisCache
    \/ EdgeGetFromDiskCache
    \/ EdgeInvalidateCache

SpecEdge == InitEdge /\ [][NextEdge]_vars

\* ------------------- fourth specification: two threads, one manager
\* the wrapped function stamp() returns how often it has been invoked, so
\* that two invocations can be told apart
Stamp(n) == PyInt(n + 1)
StampKey == _generate_cache_key("stamp", <<>>, <<>>)

\* cache_entry = self.memory_cache.get(key)
MemoryRead(mem, key) ==
    IF Has(mem, key) THEN [some |-> TRUE, entry |-> mem[key]]
    ELSE [some |-> FALSE, entry |-> NoEntry]
\* del self.memory_cache[key]
MemoryDel(mem, key) ==
    IF Has(mem, key) THEN [mem |-> Drop(mem, key), raised |-> NoError]
    ELSE [mem |-> mem, raised |-> "KeyError"]
\* self.memory_cache[key] = {'value': ..., 'expiry': ...}
MemoryWriteIfAbsent(mem, key, value, ttl, time) ==
    IF Has(mem, key) THEN mem
    ELSE set_cache(NoClient, mem, Empty, Empty, key, value, ttl, "memory", time, FALSE).mem
MemoryWrite(mem, key, value, ttl, time) ==
    set_cache(NoClient, mem, Empty, Empty, key, value, ttl, "memory", time, FALSE).mem

\* the statement a thread reaches after a tier's probe missed or its write is done
AfterMemoryProbe(layer, client) ==
    IF InLayer(layer, "redis") /\ client # NoClient THEN "redis_get"
    ELSE IF InLayer(layer, "disk") THEN "disk_get" ELSE "invoke"
AfterRedisProbe(layer) == IF InLayer(layer, "disk") THEN "disk_get" ELSE "invoke"
AfterMemoryWrite(layer, client) ==
    IF InLayer(layer, "redis") /\ client # NoClient THEN "redis_set"
    ELSE IF InLayer(layer, "disk") THEN "disk_set" ELSE "done"
AfterRedisWrite(layer) == IF InLayer(layer, "disk") THEN "disk_set" ELSE "done"
Goto(th, pc) == [th EXCEPT !.pc = pc, !.missed = th.missed \/ pc = "invoke"]
Return(th, result) == [th EXCEPT !.pc = "done", !.result = result]

\* what a thread runs: stamp() under cache(ttl=1, layer), or a direct
\* get_from_memory_cache, set_cache(.., value, 1, layer) or
\* invalidate_cache(.., 'memory') on the same key; thread 1 sets the value
\* 7 and thread 2 the value 8
SetValue(t) == PyInt(6 + t)
ThreadOps ==
    {[op |-> "call", layer |-> "memory"], [op |-> "call", layer |-> "multi"],
     [op |-> "get", layer |-> "memory"], [op |-> "set", layer |-> "memory"],
     [op |-> "set", layer |-> "multi"], [op |-> "pop", layer |-> "memory"]}

\* the manager has run for a second: an entry stored at time 0 with ttl 1
\* is still in the table and is expired
InitConc ==
    /\ now = 1
    /\ reachable = TRUE
    /\ redis_client = Construct(TRUE).redis_client
    /\ memory_cache \in {Empty, Put(Empty, StampKey, MemoryEntry(_compress_data(PyInt(7)), 0, 1))}
    /\ redis = Empty
    /\ disk = Empty
    /\ last = Last("__init__", KeyNone, "none", NoOut)
    /\ sigs = <<NoSig, NoSig>>
    /\ keys = <<>>
    /\ threads = IdleThreads
    /\ count = 0
    /\ written = NoWrites
    /\ security = NoSecurity
    /\ database = NoDatabase
    /\ limiter = NoLimiter

ThreadFrame == <<now, reachable, redis_client, last, sigs, keys, limiter, security,
                database>>

Begin ==
    \E t \in Threads, o \in ThreadOps :
       /\ threads[t].pc = "idle"
       /\ threads' = [threads EXCEPT ![t] =
             [IdleThread EXCEPT !.op = o.op, !.layer = o.layer,
                 !.pc = IF o.op \in {"call", "get"} THEN "mem_get"
                        ELSE IF o.op = "set" THEN "mem_set" ELSE "mem_pop",
                 !.result = IF o.op = "set" THEN SetValue(t) ELSE PyNone]]
       /\ UNCHANGED <<ThreadFrame, memory_cache, redis, disk, count, written>>

\* get_from_memory_cache up to the test of the expiry
MemGet ==
    \E t \in Threads :
       LET th == threads[t]
           r == MemoryRead(memory_cache, StampKey)
           after == IF th.op = "get" THEN "done"
                    ELSE AfterMemoryProbe(th.layer, redis_client)
       IN /\ th.pc = "mem_get"
          /\ threads' = [threads EXCEPT ![t] =
                IF ~r.some THEN Goto(th, after)
                ELSE IF now < r.entry.expiry
                     THEN Return(th, _decompress_data(r.entry.value).value)
                     ELSE [th EXCEPT !.pc = "mem_del", !.some = TRUE, !.entry = r.entry]]
          /\ UNCHANGED <<ThreadFrame, memory_cache, redis, disk, count, written>>

\* get_from_memory_cache: del self.memory_cache[key], then return None
MemDel ==
    \E t \in Threads :
       LET th == threads[t]
           d == MemoryDel(memory_cache, StampKey)
           after == IF th.op = "get" THEN "done"
                    ELSE AfterMemoryProbe(th.layer, redis_client)
       IN /\ th.pc = "mem_del"
          /\ memory_cache' = d.mem
          /\ threads' = [threads EXCEPT ![t] =
                IF d.raised # NoError
                THEN [th EXCEPT !.pc = "done", !.raised = d.raised]
                ELSE [Goto(th, after) EXCEPT
                         !.removedLive = now < memory_cache[StampKey].expiry]]
          /\ UNCHANGED <<ThreadFrame, redis, disk, count, written>>

RedisGet ==
    \E t \in Threads :
       LET th == threads[t]
           r == get_from_redis_cache(redis_client, redis, StampKey, now, FALSE)
       IN /\ th.pc = "redis_get"
          /\ threads' = [threads EXCEPT ![t] =
                IF r.result # PyNone THEN Return(th, r.result)
                ELSE Goto(th, AfterRedisProbe(th.layer))]
          /\ UNCHANGED <<ThreadFrame, memory_cache, redis, disk, count, written>>

DiskGet ==
    \E t \in Threads :
       LET th == threads[t]
           d == get_from_disk_cache(disk, StampKey, now)
       IN /\ th.pc = "disk_get"
          /\ disk' = d.disk
          /\ threads' = [threads EXCEPT ![t] =
                IF d.result # PyNone THEN Return(th, d.result)
                ELSE Goto(th, "invoke")]
          /\ UNCHANGED <<ThreadFrame, memory_cache, redis, count, written>>

\* result = func(*args, **kwargs)
Invoke ==
    \E t \in Threads :
       LET th == threads[t]
       IN /\ th.pc = "invoke"
          /\ count' = count + 1
          /\ threads' = [threads EXCEPT ![t] =
                [th EXCEPT !.pc = "mem_set", !.result = Stamp(count), !.invoked = TRUE]]
          /\ UNCHANGED <<ThreadFrame, memory_cache, redis, disk, written>>

\* set_cache: the store into the memory table
MemSet ==
    \E t \in Threads :
       LET th == threads[t]
       IN /\ th.pc = "mem_set"
          /\ memory_cache' = MemoryWrite(memory_cache, StampKey, th.result, 1, now)
          /\ written' = [written EXCEPT !.memory = t]
          /\ threads' = [threads EXCEPT ![t] =
                [th EXCEPT !.wrote = TRUE,
                           !.pc = AfterMemoryWrite(th.layer, redis_client)]]
          /\ UNCHANGED <<ThreadFrame, redis, disk, count>>

\* set_cache: setex
RedisSet ==
    \E t \in Threads :
       LET th == threads[t]
           o == set_cache(redis_client, memory_cache, redis, disk, StampKey, th.result,
                          1, "redis", now, FALSE)
       IN /\ th.pc = "redis_set"
          /\ redis' = o.redis
          /\ written' = [written EXCEPT !.redis = t]
          /\ threads' = [threads EXCEPT ![t] = [th EXCEPT !.pc = AfterRedisWrite(th.layer)]]
          /\ UNCHANGED <<ThreadFrame, memory_cache, disk, count>>

\* set_cache: the write of the file
DiskSet ==
    \E t \in Threads :
       LET th == threads[t]
           o == set_cache(redis_client, memory_cache, redis, disk, StampKey, th.result,
                          1, "disk", now, FALSE)
       IN /\ th.pc = "disk_set"
          /\ disk' = o.disk
          /\ threads' = [threads EXCEPT ![t] = [th EXCEPT !.pc = "done", !.raised = o.raised]]
          /\ UNCHANGED <<ThreadFrame, memory_cache, redis, count, written>>

\* invalidate_cache(key, 'memory'): memory_cache.pop(key, None)
MemPop ==
    \E t \in Threads :
       LET th == threads[t]
       IN /\ th.pc = "mem_pop"
          /\ memory_cache' = InvalidateMemory(memory_cache, KeyOf(StampKey))
          /\ threads' = [threads EXCEPT ![t] = [th EXCEPT !.pc = "done"]]
          /\ UNCHANGED <<ThreadFrame, redis, disk, count, written>>

NextConc ==
    \/ Begin
    \/ MemGet
    \/ MemDel
    \/ RedisGet
    \/ DiskGet
    \/ Invoke
    \/ MemSet
    \/ RedisSet
    \/ DiskSet
    \/ MemPop

SpecConc == InitConc /\ [][NextConc]_vars

\* -------------------- fifth specification: the rate limiter's requests
InitLimit ==
    /\ now = 0
    /\ reachable \in BOOLEAN
    /\ redis_client = Construct(reachable).redis_client
    /\ memory_cache = Empty
    /\ redis = Empty
    /\ disk = Empty
    /\ last = Last("__init__", KeyNone, "none", NoOut)
    /\ sigs = <<NoSig, NoSig>>
    /\ keys = <<>>
    /\ threads = IdleThreads
    /\ count = 0
    /\ written = NoWrites
    /\ security = NoSecurity
    /\ database = NoDatabase
    /\ \E limit \in {1, 2}, window \in {1, 2} :
          limiter = [NoLimiter EXCEPT !.redis_client = redis_client,
                                      !.limit = limit, !.window = window]

LimitFrame == <<reachable, redis_client, memory_cache, redis, disk, last, sigs, keys,
                threads, count, written, security, database>>

\* a second passes; the server drops the sorted sets whose expire has run out
ClockTick ==
    /\ now < MaxClock
    /\ now' = now + 1
    /\ limiter' = [limiter EXCEPT
          !.zsets = [k \in {x \in DOMAIN limiter.zsets : now + 1 < limiter.zsets[x].expiry}
                        |-> limiter.zsets[k]],
          !.burst = [k \in RateKeys |-> 0]]
    /\ UNCHANGED LimitFrame

\* a request of the client with rate-limit key k reaches a decorated endpoint
Request ==
    \E k \in RateKeys, fail \in BOOLEAN :
       LET r == _check_rate_limit(limiter, k, now, fail)
       IN /\ limiter.burst[k] < MaxBurst
          /\ fail => (limiter.redis_client # NoClient /\ ~limiter.errors)
          /\ limiter' = [r EXCEPT
                !.granted[k] = IF r.allowed THEN Append(@, now) ELSE @,
                !.burst[k] = @ + 1,
                !.quiet = limiter.asked[k] >= 0 /\ now - limiter.asked[k] >= limiter.window,
                !.asked[k] = now,
                !.errors = @ \/ fail]
          /\ UNCHANGED <<now, LimitFrame>>

NextLimit ==
    \/ ClockTick
    \/ Request

SpecLimit == InitLimit /\ [][NextLimit]_vars

\* ------------------------ sixth specification: logins and reputations
InitLogin ==
    /\ now = 0
    /\ reachable = FALSE
    /\ redis_client = NoClient
    /\ memory_cache = Empty
    /\ redis = Empty
    /\ disk = Empty
    /\ last = Last("__init__", KeyNone, "none", NoOut)
    /\ sigs = <<NoSig, NoSig>>
    /\ keys = <<>>
    /\ threads = IdleThreads
    /\ count = 0
    /\ written = NoWrites
    /\ limiter = NoLimiter
    /\ security = NoSecurity
    /\ database = NoDatabase

LoginFrame == <<reachable, redis_client, memory_cache, redis, disk, last, sigs, keys,
                threads, count, written, limiter, database>>

\* a quarter of an hour passes
QuarterTick ==
    /\ now < MaxQuarter
    /\ now' = now + 1
    /\ security' = [security EXCEPT !.op = "none"]
    /\ UNCHANGED LoginFrame

TrackLoginAttempts ==
    \E username \in Users, ip \in Ips :
       LET r == track_login_attempts(security.login_attempts, security.blocked_ips,
                                     username, ip, now)
       IN /\ Len(security.history[username]) < MaxAttempts
          /\ security' = [security EXCEPT
                !.login_attempts = r.login_attempts,
                !.blocked_ips = r.blocked_ips,
                !.history[username] = Append(@, now),
                !.op = "track_login_attempts", !.username = username, !.ip = ip,
                !.result = r.result,
                !.wasBlocked = Has(security.blocked_ips, ip)]
          /\ UNCHANGED <<now, LoginFrame>>

CheckIpReputation ==
    \E ip \in Ips :
       LET r == check_ip_reputation(security.blocked_ips, ip, now)
       IN /\ security' = [security EXCEPT
                !.blocked_ips = r.blocked_ips,
                !.op = "check_ip_reputation", !.username = "", !.ip = ip,
                !.result = r.result,
                !.wasBlocked = Has(security.blocked_ips, ip)]
          /\ UNCHANGED <<now, LoginFrame>>

NextLogin ==
    \/ QuarterTick
    \/ TrackLoginAttempts
    \/ CheckIpReputation

SpecLogin == InitLogin /\ [][NextLogin]_vars

\* ------------------- seventh specification: registrations for an event
InitEvent ==
    /\ now = 0
    /\ reachable = FALSE
    /\ redis_client = NoClient
    /\ memory_cache = Empty
    /\ redis = Empty
    /\ disk = Empty
    /\ last = Last("__init__", KeyNone, "none", NoOut)
    /\ sigs = <<NoSig, NoSig>>
    /\ keys = <<>>
    /\ threads = IdleThreads
    /\ count = 0
    /\ written = NoWrites
    /\ limiter = NoLimiter
    /\ security = NoSecurity
    /\ \E max \in {1, 2} : database = [NoDatabase EXCEPT !.max_participants = max]

EventFrame == <<now, reachable, redis_client, memory_cache, redis, disk, last, sigs, keys,
                threads, count, written, limiter, security>>

Fail(se, error) == [se EXCEPT !.pc = "done", !.raised = error]

\* register_for_event is called; the event and the participant are looked up
LookUp ==
    \E x \in Sessions, p \in Participants :
       LET se == database.sessions[x]
           called == [IdleSession EXCEPT !.participant = p, !.calls = se.calls + 1]
       IN /\ se.pc \in {"idle", "done"}
          /\ se.calls < MaxCalls
          /\ database' = [database EXCEPT !.sessions[x] =
                IF p \notin Registered THEN Fail(called, "ValueError: not found")
                ELSE [called EXCEPT !.pc = "count"]]
          /\ UNCHANGED EventFrame

\* the capacity check
CheckCapacity ==
    \E x \in Sessions :
       LET se == database.sessions[x]
           n == CountRows(database.rows)
       IN /\ se.pc = "count"
          /\ database' = [database EXCEPT !.sessions[x] =
                IF n >= database.max_participants
                THEN Fail([se EXCEPT !.current_participants = n], "ValueError: full capacity")
                ELSE [se EXCEPT !.pc = "existing", !.current_participants = n]]
          /\ UNCHANGED EventFrame

\* the check for an existing registration
CheckExisting ==
    \E x \in Sessions :
       LET se == database.sessions[x]
       IN /\ se.pc = "existing"
          /\ database' = [database EXCEPT !.sessions[x] =
                IF ExistingRegistration(database.rows, se.participant)
                THEN Fail(se, "ValueError: already registered")
                ELSE [se EXCEPT !.pc = "commit"]]
          /\ UNCHANGED EventFrame

\* session.add(registration); session.commit()
Commit ==
    \E x \in Sessions :
       LET se == database.sessions[x]
       IN /\ se.pc = "commit"
          /\ database' = [database EXCEPT
                !.rows = Append(@, se.participant),
                !.sessions[x] = [se EXCEPT !.pc = "done", !.added = TRUE]]
          /\ UNCHANGED EventFrame

NextEvent ==
    \/ LookUp
    \/ CheckCapacity
    \/ CheckExisting
    \/ Commit

SpecEvent == InitEvent /\ [][NextEvent]_vars

\* =============================================================== claims
CallComputes ==
    /\ last.op = "call"
    /\ last.invoked = 1
    /\ Func(last.func, <<last.arg>>).raised = NoError

\* C1: a call of a function cached with the default layer 'multi' that
\* misses invokes the function once and returns the function's value
C1_FirstCallReturnsValue ==
    (CallComputes /\ last.layer = "multi") =>
        /\ last.raised = NoError
        /\ last.result = Func(last.func, <<last.arg>>).value

\* C2: a cached call raises nothing but a key-derivation error or the
\* error raised by the wrapped function itself
C2_OnlyKeyAndFunctionErrors ==
    (last.op = "call" /\ last.raised # NoError) =>
        \/ last.raised = "PicklingError"
        \/ last.invoked = 1 /\ last.raised = Func(last.func, <<last.arg>>).raised

\* the values of the round trip: an int, None, and the other int
RoundTripValues == {PyInt(7), PyNone, PyInt(4)}

\* C3: after set_cache(k, v, t, layer='memory'), get_from_memory_cache(k) at
\* every time before the stored expiry (the time of the set plus t) returns
\* v: for the set that has just returned, and for every key, value and ttl
\* that could be set next
C3_MemoryRoundTrip ==
    /\ (last.op = "set_cache" /\ last.layer = "memory") =>
          /\ last.raised = NoError
          /\ \A t \in now..(now + last.ttl - 1) :
                LET g == get_from_memory_cache(memory_cache, last.key.str, t)
                IN g.raised = NoError /\ g.result = last.value
    /\ \A k \in DirectKeys, v \in RoundTripValues, ttl \in TTLs :
          LET s == set_cache(redis_client, memory_cache, redis, disk, k, v, ttl,
                             "memory", now, FALSE)
          IN /\ s.raised = NoError
             /\ \A t \in now..(now + ttl - 1) :
                   LET g == get_from_memory_cache(s.mem, k, t)
                   IN g.raised = NoError /\ g.result = v /\ g.mem = s.mem

C3_Witness ==
    /\ last.op = "set_cache"
    /\ last.layer = "memory"
    /\ last.ttl = 2
    /\ now > 0
    /\ get_from_memory_cache(memory_cache, last.key.str, now + 1).result = PyInt(7)

\* C4: set_cache(k, v, t, layer='disk') returns normally, leaves a file for k
\* holding the payload and the expiry, and get_from_disk_cache(k) before
\* expiry returns v
C4_DiskRoundTrip ==
    (last.op = "set_cache" /\ last.layer = "disk") =>
        /\ last.raised = NoError
        /\ Has(disk, last.key.str)
        /\ disk[last.key.str] = JsonFile(_compress_data(last.value), now + last.ttl)
        /\ \A t \in now..(now + last.ttl - 1) :
              get_from_disk_cache(disk, last.key.str, t).result = last.value

\* C5: two derivations with the same function name, the same positional
\* arguments and the same keyword name/value pairs, in whatever insertion
\* order, yield the same key
C5_KeyDeterministic ==
    ( /\ keys # <<>>
      /\ sigs[1].func = sigs[2].func
      /\ sigs[1].args = sigs[2].args
      /\ SameKwargs(sigs[1].kwargs, sigs[2].kwargs) ) => keys[1] = keys[2]

\* C6: after set_cache(k, v, t, layer='memory'), get_from_memory_cache(k) at a
\* time more than t after the set is a miss and leaves k absent from the
\* table; every lookup that finds an expired entry is a miss and removes it
C6_MemoryExpiry ==
    /\ (last.op = "set_cache" /\ last.layer = "memory") =>
          \A t \in (now + last.ttl + 1)..(now + last.ttl + 2) :
             LET g == get_from_memory_cache(memory_cache, last.key.str, t)
             IN g.result = PyNone /\ g.raised = NoError /\ ~Has(g.mem, last.key.str)
    /\ (last.op = "get_from_memory_cache" /\ last.found = "expired") =>
          /\ last.result = PyNone
          /\ last.raised = NoError
          /\ ~Has(memory_cache, last.key.str)

C6_Witness ==
    /\ last.op = "get_from_memory_cache"
    /\ last.found = "expired"
    /\ last.result = PyNone
    /\ ~Has(memory_cache, last.key.str)

\* C7: when the remote host is unreachable the constructor does not raise and
\* every cached call with layer 'multi' returns the wrapped function's result
C7_FailOpenUnreachable ==
    ~reachable =>
        /\ last.op = "__init__" => last.raised = NoError
        /\ (CallComputes /\ last.layer = "multi") =>
              /\ last.raised = NoError
              /\ last.result = Func(last.func, <<last.arg>>).value

AllMiss(tier_get(_, _)) ==
    \A k \in DirectKeys : \A t \in now..MaxTime : tier_get(k, t) = PyNone
MemoryResult(k, t) == get_from_memory_cache(memory_cache, k, t).result
RedisResult(k, t) == get_from_redis_cache(redis_client, redis, k, t, FALSE).result
DiskResult(k, t) == get_from_disk_cache(disk, k, t).result

InvalidatedAll ==
    last.op = "invalidate_cache" /\ last.key = KeyNone /\ last.layer = "multi"

C9_RemoteStaysDisabled ==
    ~reachable =>
        /\ redis_client = NoClient
        /\ last.calls = 0
        /\ last.failed = "none"
        /\ redis = Empty
        /\ ~("redis" \in {last.probed[i] : i \in 1..Len(last.probed)})

C9_Witness ==
    /\ ~reachable
    /\ last.op = "call"
    /\ last.layer = "multi"
    /\ last.invoked = 1
    /\ last.probed = <<"memory", "disk">>
    /\ Has(memory_cache, last.key.str)

GetFault == [get |-> TRUE, set |-> FALSE]
SetFault == [get |-> FALSE, set |-> TRUE]
NoFault == [get |-> FALSE, set |-> FALSE]

\* the caller-visible part and the memory and disk part of an outcome
LocalPart(o) == [mem |-> o.mem, disk |-> o.disk, raised |-> o.raised]
CallerPart(o) == [result |-> o.result, raised |-> o.raised, invoked |-> o.invoked,
                  mem |-> o.mem, disk |-> o.disk]

\* C10: a remote operation that raises never raises to the caller; a failing
\* remote get gives the cached call the outcome of a remote miss (the disk
\* tier is probed next, then the function is computed); a failing remote
\* set or delete changes nothing on the server and leaves the call's effect
\* on the memory and disk tiers, and its outcome, as when the remote succeeds
C10_RemoteFailureIsLocal ==
    /\ last.failed # "none" => last.raised # "redis.RedisError"
    /\ (last.op = "call" /\ last.failed = "get") =>
          /\ last.probed = <<"memory", "redis", "disk">>
          /\ last.hit = "disk" \/ last.invoked = 1
    /\ redis_client # NoClient =>
          /\ \A k \in DirectKeys :
                get_from_redis_cache(redis_client, redis, k, now, TRUE).result = PyNone
          /\ \A dec \in Decorated : \A a \in CallArgs(dec.func) :
                LET key == _generate_cache_key(dec.func, <<a>>, <<>>)
                    missed == IF Has(redis, key) THEN Drop(redis, key) ELSE redis
                    bad == wrapper(redis_client, memory_cache, redis, disk, dec.func, <<a>>,
                                   <<>>, dec.ttl, dec.cache_none, dec.layer, now, GetFault)
                    miss == wrapper(redis_client, memory_cache, missed, disk, dec.func, <<a>>,
                                    <<>>, dec.ttl, dec.cache_none, dec.layer, now, NoFault)
                    lost == wrapper(redis_client, memory_cache, redis, disk, dec.func, <<a>>,
                                    <<>>, dec.ttl, dec.cache_none, dec.layer, now, SetFault)
                    good == wrapper(redis_client, memory_cache, redis, disk, dec.func, <<a>>,
                                    <<>>, dec.ttl, dec.cache_none, dec.layer, now, NoFault)
                IN /\ ArgsPicklable(<<a>>, <<>>) => CallerPart(bad) = CallerPart(miss)
                   /\ CallerPart(lost) = CallerPart(good)
                   /\ lost.failed = "setex" => lost.redis = redis
          /\ \A k \in SetKeys, v \in DirectValues, ttl \in TTLs, layer \in Layers :
                LET bad == set_cache(redis_client, memory_cache, redis, disk, k, v, ttl,
                                     layer, now, TRUE)
                    good == set_cache(redis_client, memory_cache, redis, disk, k, v, ttl,
                                      layer, now, FALSE)
                IN /\ LocalPart(bad) = LocalPart(good)
                   /\ bad.redis = redis
                   /\ InLayer(layer, "memory") =>
                         bad.mem[k] = MemoryEntry(_compress_data(v), now, ttl)
                   /\ InLayer(layer, "disk") => Has(bad.disk, k)
          /\ \A key \in InvalidateKeys, layer \in Layers :
                LET bad == invalidate_cache(redis_client, memory_cache, redis, disk, key,
                                            layer, TRUE, {})
                    good == invalidate_cache(redis_client, memory_cache, redis, disk, key,
                                             layer, FALSE, {})
                IN /\ LocalPart(bad) = LocalPart(good)
                   /\ bad.redis = redis
                   /\ bad.raised = NoError

C10_Witness ==
    /\ last.op = "call"
    /\ last.failed = "get"
    /\ last.probed = <<"memory", "redis", "disk">>
    /\ last.invoked = 1
    /\ Found(redis, last.key.str) = "live"

\* ------------------------------------------------ claims C11 .. C20
\* the tiers a layer policy enables, in the order memory, remote, disk
PolicyTiers(layer) ==
    IF layer = "multi" THEN <<"memory", "redis", "disk">>
    ELSE IF layer \in {"memory", "redis", "disk"} THEN <<layer>> ELSE <<>>
\* the remote tier is probed only while there is a client
ProbedTiers(layer) ==
    SelectSeq(PolicyTiers(layer), LAMBDA t : t # "redis" \/ redis_client # NoClient)
\* what each tier answers for a key now
TierResult(tier, key, fail) ==
    IF tier = "memory" THEN get_from_memory_cache(memory_cache, key, now).result
    ELSE IF tier = "redis"
         THEN get_from_redis_cache(redis_client, redis, key, now, fail).result
         ELSE get_from_disk_cache(disk, key, now).result
\* the position of the first tier that hits, 0 when every tier misses
FirstHit(tiers, key, fail) ==
    LET hits == {i \in 1..Len(tiers) : TierResult(tiers[i], key, fail) # PyNone}
    IN IF hits = {} THEN 0 ELSE CHOOSE i \in hits : \A j \in hits : i <= j

\* C14: a cached call probes the enabled tiers in the order memory, remote,
\* disk, returns the value of the first tier that hits without probing a
\* later one, and invokes the function only when every enabled tier missed
C14_ProbeOrder ==
    /\ (last.op = "call" /\ last.raised # "PicklingError") =>
          /\ \E n \in 0..Len(ProbedTiers(last.layer)) :
                last.probed = SubSeq(ProbedTiers(last.layer), 1, n)
          /\ last.hit # "none" =>
                /\ last.invoked = 0
                /\ last.probed # <<>>
                /\ last.probed[Len(last.probed)] = last.hit
          /\ last.invoked = 1 => last.probed = ProbedTiers(last.layer)
    /\ \A dec \in Decorated, faults \in Faults :
          LET key == _generate_cache_key(dec.func, <<PyInt(2)>>, <<>>)
              tiers == ProbedTiers(dec.layer)
              n == FirstHit(tiers, key, faults.get)
              o == wrapper(redis_client, memory_cache, redis, disk, dec.func, <<PyInt(2)>>,
                           <<>>, dec.ttl, dec.cache_none, dec.layer, now, faults)
          IN IF n = 0
             THEN o.invoked = 1 /\ o.hit = "none" /\ o.probed = tiers
             ELSE /\ o.invoked = 0
                  /\ o.hit = tiers[n]
                  /\ o.probed = SubSeq(tiers, 1, n)
                  /\ o.result = TierResult(tiers[n], key, faults.get)
                  /\ o.raised = NoError

C14_Witness ==
    /\ last.op = "call"
    /\ last.layer = "multi"
    /\ last.hit = "redis"
    /\ last.probed = <<"memory", "redis">>
    /\ last.invoked = 0
    /\ last.result = PyInt(7)
    /\ Found(memory_cache, last.key.str) # "live"

\* C15: when a cached call has missed every enabled tier and the function
\* returned a value other than None, every tier the layer policy enables
\* holds a live entry for the key with that value when the call returns
C15_WriteReachesEveryTier ==
    ( /\ CallComputes
      /\ last.layer = "multi"
      /\ last.failed = "none"
      /\ Func(last.func, <<last.arg>>).value # PyNone ) =>
        /\ MemoryResult(last.key.str, now) = Func(last.func, <<last.arg>>).value
        /\ redis_client # NoClient =>
              RedisResult(last.key.str, now) = Func(last.func, <<last.arg>>).value
        /\ DiskResult(last.key.str, now) = Func(last.func, <<last.arg>>).value

\* C19: a cached call with layer 'multi' that misses the memory tier and hits
\* the remote or the disk tier writes nothing back: afterwards the memory
\* tier, and after a disk hit the remote tier that missed, hold no live
\* entry for the key, and the remote and disk tiers are as before the call
C19_NoBackfill ==
    /\ (last.op = "call" /\ last.layer = "multi" /\ last.hit \in {"redis", "disk"}) =>
          /\ Found(memory_cache, last.key.str) # "live"
          /\ (last.hit = "disk" /\ last.failed = "none") =>
                Found(redis, last.key.str) # "live"
    /\ \A dec \in Decorated :
          LET key == _generate_cache_key(dec.func, <<PyInt(2)>>, <<>>)
              o == wrapper(redis_client, memory_cache, redis, disk, dec.func, <<PyInt(2)>>,
                           <<>>, dec.ttl, dec.cache_none, dec.layer, now,
                           [get |-> FALSE, set |-> FALSE])
          IN (dec.layer = "multi" /\ o.hit \in {"redis", "disk"}) =>
                /\ o.mem = get_from_memory_cache(memory_cache, key, now).mem
                /\ ~Has(o.mem, key)
                /\ o.redis = redis
                /\ o.disk = disk

C19_Witness ==
    /\ last.op = "call"
    /\ last.layer = "multi"
    /\ last.hit = "disk"
    /\ last.failed = "none"
    /\ last.probed = <<"memory", "redis", "disk">>
    /\ last.result = PyInt(7)
    /\ ~Has(memory_cache, last.key.str)

\* C20: get_from_memory_cache on a live entry returns the entry's value and
\* leaves the table as it was, at every time before the expiry; from the
\* expiry on the entry is not served
C20_ReadKeepsEntry ==
    /\ (last.op = "get_from_memory_cache" /\ last.found = "live") =>
          /\ Found(memory_cache, last.key.str) = "live"
          /\ last.raised = NoError
          /\ last.result = _decompress_data(memory_cache[last.key.str].value).value
    /\ \A k \in DirectKeys :
          Found(memory_cache, k) = "live" =>
             /\ \A t \in now..(memory_cache[k].expiry - 1) :
                   LET g == get_from_memory_cache(memory_cache, k, t)
                       again == get_from_memory_cache(g.mem, k, t)
                   IN /\ g.mem = memory_cache
                      /\ g.raised = NoError
                      /\ g.result = memory_cache[k].value.body.body
                      /\ again = g
             /\ \A t \in memory_cache[k].expiry..(memory_cache[k].expiry + 1) :
                   get_from_memory_cache(memory_cache, k, t).result = PyNone

C20_Witness ==
    /\ last.op = "get_from_memory_cache"
    /\ last.found = "live"
    /\ last.result = PyInt(7)
    /\ Found(memory_cache, last.key.str) = "live"
    /\ now > 0

\* C11: in every tier a lookup of an entry whose payload cannot be decoded
\* is a miss and raises nothing, and a cached call that meets such an entry
\* goes on to the next tier or recomputes
C11_CorruptIsMiss ==
    /\ ( /\ last.op \in {"get_from_memory_cache", "get_from_redis_cache",
                         "get_from_disk_cache"}
         /\ last.found = "corrupt" ) =>
          (last.result = PyNone /\ last.raised = NoError)
    /\ (last.op = "call" /\ last.found = "corrupt") =>
          (last.raised \in {NoError, "TypeError"} /\ (last.hit # "none" \/ last.invoked = 1))

\* C12: the cached call, set_cache and invalidate_cache reject a layer other
\* than memory, redis, disk and multi with an error
C12_UnknownLayerRejected ==
    ( /\ last.op \in {"call", "set_cache", "invalidate_cache"}
      /\ last.layer \notin Layers ) =>
        last.raised # NoError

\* the entries of a tier other than the one under key
Others(tier, key) == [k \in DOMAIN tier \ {key} |-> tier[k]]

\* C17: invalidate_cache(key, layer) with a key removes that key's entry from
\* the tiers the layer enables, and leaves every other key's entry and every
\* other tier as they were
C17_InvalidateOnlyThatKey ==
    \A key \in EdgeKeys, layer \in Layers :
       LET o == invalidate_cache(redis_client, memory_cache, redis, disk, KeyOf(key),
                                 layer, FALSE, {})
       IN /\ o.mem = IF layer \in {"memory", "multi"}
                     THEN Others(memory_cache, key) ELSE memory_cache
          /\ o.redis = IF layer \in {"redis", "multi"}
                       THEN Others(redis, key) ELSE redis
          /\ o.disk = IF layer \in {"disk", "multi"}
                      THEN Others(disk, key) ELSE disk

\* C18 as stated: get_from_disk_cache never raises; it returns the value of a
\* live file, removes an expired file and misses, and misses on a missing,
\* unreadable or corrupt file
C18_DiskLookup ==
    last.op = "get_from_disk_cache" =>
       /\ last.raised = NoError
       /\ (last.found = "live" /\ ~last.unreadable) => last.result = PyInt(7)
       /\ (last.found = "expired" /\ ~last.unreadable) =>
             (last.result = PyNone /\ ~Has(disk, last.key.str))
       /\ (last.found \in {"absent", "corrupt"} \/ last.unreadable) =>
             last.result = PyNone

\* C18 amended: as above, but the expired file is gone only when os.remove
\* did not raise; when it raised the file stays and the lookup still misses;
\* a lookup that removes nothing leaves the directory as it was
C18_DiskLookupUnlessRemoveFails ==
    last.op = "get_from_disk_cache" =>
       /\ last.raised = NoError
       /\ (last.found = "live" /\ ~last.unreadable) => last.result = PyInt(7)
       /\ (last.found = "expired" /\ ~last.unreadable) =>
             /\ last.result = PyNone
             /\ Has(disk, last.key.str) <=> last.unlinkFailed
       /\ (last.found \in {"absent", "corrupt"} \/ last.unreadable) =>
             /\ last.result = PyNone
             /\ last.found # "absent" => Has(disk, last.key.str)
       /\ last.found = "live" => Has(disk, last.key.str)

C18_Witness ==
    /\ last.op = "get_from_disk_cache"
    /\ last.found = "expired"
    /\ ~last.unreadable
    /\ ~last.unlinkFailed
    /\ last.result = PyNone
    /\ ~Has(disk, last.key.str)

\* both threads have run a cached call to its end and both missed every tier
BothMissed ==
    \A t \in Threads :
       threads[t].op = "call" /\ threads[t].pc = "done" /\ threads[t].missed

\* C13: when two concurrent cached calls of one key both miss, both invoke
\* the function and both write; once both have completed, a lookup of the
\* key returns the value of the write that happened last
C13_BothComputeLastWriteWins ==
    BothMissed =>
       /\ \A t \in Threads : threads[t].invoked /\ threads[t].wrote
       /\ count = 2
       /\ threads[1].result # threads[2].result
       /\ written.memory \in Threads
       /\ get_from_memory_cache(memory_cache, StampKey, now).result
             = threads[written.memory].result
       /\ \A t \in Threads :
             threads[t].layer = "multi" =>
                /\ written.redis \in Threads
                /\ get_from_redis_cache(redis_client, redis, StampKey, now, FALSE).result
                      = threads[written.redis].result

\* both threads computed, and the thread that invoked the function first
\* stored last
C13_Witness ==
    /\ BothMissed
    /\ \A t \in Threads : threads[t].invoked /\ threads[t].wrote
    /\ written.memory = 1
    /\ threads[1].result = Stamp(0)
    /\ threads[2].result = Stamp(1)
    /\ get_from_memory_cache(memory_cache, StampKey, now).result = Stamp(0)

\* C16: the memory-tier operations are atomic with respect to each other: a
\* lookup that found an expired entry neither raises nor removes an entry
\* that another thread has stored in the meantime
C16_MemoryOpsAtomic ==
    \A t \in Threads :
       /\ threads[t].raised # "KeyError"
       /\ ~threads[t].removedLive

\* ------------------------------------------------ claims C21 .. C30
\* C21: set_cache on a key that has an entry puts the new payload and the
\* new expiry (now + ttl) in its place in every tier the layer enables: the
\* tier then answers with the new value until the new expiry and never with
\* the old one
C21_SetReplacesEntry ==
    \A ttl \in TTLs, layer \in Layers :
       LET k == SquareKey
           v == PyInt(7)
           o == set_cache(redis_client, memory_cache, redis, disk, k, v, ttl, layer,
                          now, FALSE)
       IN /\ (Has(memory_cache, k) /\ InLayer(layer, "memory")) =>
                /\ o.mem[k] = [value |-> _compress_data(v), expiry |-> now + ttl]
                /\ \A t \in now..(now + ttl + 1) :
                      get_from_memory_cache(o.mem, k, t).result
                         = IF t < now + ttl THEN v ELSE PyNone
          /\ (Has(redis, k) /\ InLayer(layer, "redis") /\ redis_client # NoClient) =>
                /\ o.redis[k] = [value |-> _compress_data(v), expiry |-> now + ttl]
                /\ get_from_redis_cache(redis_client, o.redis, k, now, FALSE).result = v
          /\ (Has(disk, k) /\ InLayer(layer, "disk")) =>
                /\ o.disk[k] = JsonFile(_compress_data(v), now + ttl)
                /\ get_from_disk_cache(o.disk, k, now).result = v

\* the calls of find(2), which returns None, under the decorations that do
\* not cache None
NoneCalls == {dec \in Decorated : dec.func = "find" /\ ~dec.cache_none}
CallOf(dec, mem, rds, dsk) ==
    wrapper(redis_client, mem, rds, dsk, dec.func, <<PyInt(2)>>, <<>>, dec.ttl,
            dec.cache_none, dec.layer, now, [get |-> FALSE, set |-> FALSE])

C23_CachedNoneIsServed ==
    ( /\ last.op = "call"
      /\ last.cache_none
      /\ last.invoked = 1
      /\ Func(last.func, <<last.arg>>) = [value |-> PyNone, raised |-> NoError]
      /\ Found(memory_cache, last.key.str) = "live" ) =>
        wrapper(redis_client, memory_cache, redis, disk, last.func, <<last.arg>>, <<>>,
                last.ttl, TRUE, last.layer, now, [get |-> FALSE, set |-> FALSE]).invoked = 0

\* C25: once set_cache(k, 7, layer = 'multi') has completed for a key whose
\* memory and remote entries held 4, no lookup of k and no cache hit of a
\* call returns 4 at any later time, also when the setex of that set_cache
\* failed
C25_OldValueNeverServed ==
    \A ttl \in TTLs, redisFail \in BOOLEAN :
       LET k == SquareKey
           o == set_cache(redis_client, memory_cache, redis, disk, k, PyInt(7), ttl,
                          "multi", now, redisFail)
       IN ( /\ redisFail => redis_client # NoClient
            /\ MemoryResult(k, now) = PyInt(4)
            /\ RedisResult(k, now) = PyInt(4) ) =>
             \A t \in now..(MaxTime + 1) :
                LET c == wrapper(redis_client, o.mem, o.redis, o.disk, "square",
                                 <<PyInt(2)>>, <<>>, 2, FALSE, "multi", t,
                                 [get |-> FALSE, set |-> FALSE])
                IN /\ get_from_memory_cache(o.mem, k, t).result # PyInt(4)
                   /\ get_from_redis_cache(redis_client, o.redis, k, t, FALSE).result # PyInt(4)
                   /\ get_from_disk_cache(o.disk, k, t).result # PyInt(4)
                   /\ c.hit # "none" => c.result # PyInt(4)

\* C24: a value that a cached call returns from the cache is the value the
\* same wrapped function gives for the same arguments: no function is
\* served another function's result
C24_HitIsOwnResult ==
    (last.op = "call" /\ last.hit # "none" /\ last.raised = NoError) =>
        last.result = Func(last.func, <<last.arg>>).value

\* both threads have run set_cache(key, value, 1, 'multi') to its end
BothSet ==
    \A t \in Threads :
       threads[t].op = "set" /\ threads[t].layer = "multi" /\ threads[t].pc = "done"

\* C26: after two concurrent set_cache calls on one key with layer 'multi'
\* and different values have both completed, the tiers hold the same value
\* for the key: the memory and the remote tier answer alike
C26_TiersAgreeAfterSets ==
    BothSet =>
       get_from_memory_cache(memory_cache, StampKey, now).result
          = get_from_redis_cache(redis_client, redis, StampKey, now, FALSE).result

\* the number of requests granted to key k in the window seconds after a
GrantedIn(k, a) ==
    Cardinality({i \in 1..Len(limiter.granted[k]) :
                    a < limiter.granted[k][i] /\ limiter.granted[k][i] <= a + limiter.window})

\* C27: without a remote client, the requests allowed for a key within any
\* window seconds are at most limit, and the first request of a client that
\* was silent for window seconds is allowed
C27_MemoryLimitHolds ==
    limiter.redis_client = NoClient =>
       /\ \A k \in RateKeys : \A a \in -1..MaxClock :
             GrantedIn(k, a) <= limiter.limit
       /\ \A k \in RateKeys :
             (limiter.asked[k] >= 0 /\ now - limiter.asked[k] >= limiter.window) =>
                _memory_rate_limit(limiter.memory_limits, k, limiter.limit,
                                   limiter.window, now).allowed
       /\ limiter.quiet => limiter.allowed

\* a denied request, and later the same client allowed after its silence
C27_Witness ==
    /\ limiter.redis_client = NoClient
    /\ limiter.limit = 1
    /\ limiter.window = 2
    /\ limiter.quiet
    /\ limiter.allowed
    /\ limiter.granted["a"] = <<0, 2>>
    /\ Len(limiter.memory_limits["a"].timestamps) = 1

\* C28: with a remote client whose pipelines do not fail, the requests
\* allowed for a key within any window seconds are at most limit, also when
\* several requests arrive within one second
C28_RedisLimitHolds ==
    (limiter.redis_client # NoClient /\ ~limiter.errors) =>
       \A k \in RateKeys : \A a \in -1..MaxClock :
          GrantedIn(k, a) <= limiter.limit

\* the length of the run of attempts that ends with the latest one: the
\* attempts, counted backwards, whose gap to the next is at most 15 minutes
RECURSIVE RunLength(_)
RunLength(times) ==
    IF Len(times) <= 1 THEN Len(times)
    ELSE IF times[Len(times)] - times[Len(times) - 1] <= ResetAfter
         THEN 1 + RunLength(SubSeq(times, 1, Len(times) - 1))
         ELSE 1

\* the attempt is refused exactly from the sixth of a run on, and a refused
\* attempt records its address as blocked now
RefusedFromSixth ==
    security.op = "track_login_attempts" =>
       /\ ~security.result <=> RunLength(security.history[security.username]) >= 6
       /\ ~security.result =>
             /\ Has(security.blocked_ips, security.ip)
             /\ security.blocked_ips[security.ip] = now

\* C29 as stated: refusal exactly from the sixth attempt of a run on; the
\* refused attempt's address is reported unsafe for the following hour and
\* as safe, and no longer recorded, after it
C29_BlockedForAnHour ==
    /\ RefusedFromSixth
    /\ \A ip \in DOMAIN security.blocked_ips :
          \A t \in security.blocked_ips[ip]..(security.blocked_ips[ip] + BlockFor + 1) :
             LET r == check_ip_reputation(security.blocked_ips, ip, t)
             IN IF t - security.blocked_ips[ip] < BlockFor
                THEN ~r.result /\ r.blocked_ips = security.blocked_ips
                ELSE r.result /\ ~Has(r.blocked_ips, ip)

\* C29: refusal exactly from the sixth attempt of a run on; the refused
\* attempt's address is reported unsafe for the following hour; after it a
\* public address is reported safe and is no longer recorded, while a
\* private address and a string that is no address are reported unsafe at
\* all times and stay recorded
C29_PublicBlockedForAnHour ==
    /\ RefusedFromSixth
    /\ \A ip \in DOMAIN security.blocked_ips :
          \A t \in security.blocked_ips[ip]..(security.blocked_ips[ip] + BlockFor + 1) :
             LET r == check_ip_reputation(security.blocked_ips, ip, t)
             IN IF t - security.blocked_ips[ip] < BlockFor \/ IpClass(ip) # "public"
                THEN ~r.result /\ r.blocked_ips = security.blocked_ips
                ELSE r.result /\ ~Has(r.blocked_ips, ip)
    /\ (security.op = "check_ip_reputation" /\ security.wasBlocked) =>
          (security.result <=> ~Has(security.blocked_ips, security.ip))

\* the blocked public address is found safe again after the hour
C29_Witness ==
    /\ security.op = "check_ip_reputation"
    /\ security.ip = "8.8.8.8"
    /\ security.wasBlocked
    /\ security.result
    /\ ~Has(security.blocked_ips, "8.8.8.8")
    /\ RunLength(security.history["ann"]) >= 6

\* C30: under every interleaving of register_for_event calls of concurrent
\* sessions the event never has more EventParticipation rows than its
\* max_participants, and a call that found the event full has failed with
\* an error and added no row
C30_NeverOverCapacity ==
    /\ Len(database.rows) <= database.max_participants
    /\ \A x \in Sessions :
          LET se == database.sessions[x]
          IN (se.pc = "done" /\ se.current_participants >= database.max_participants) =>
                (se.raised # NoError /\ ~se.added)

====
